---- MODULE Spec2Model ----
(***************************************************************************)
(* Engagement Plan Monitor: the client-side editor state (AppState in      *)
(* public/static/app.js) and the plan store (the Hono routes over D1 in    *)
(* src/index.tsx with the schema of migrations/0001_initial_schema.sql).   *)
(*                                                                         *)
(* JavaScript arrays are 0-based; sequences here are 1-based.  Operation   *)
(* arguments keep the JavaScript index and At/splice convert.              *)
(* ISO dates (fixed-width YYYY-MM-DD strings, compared as strings) are     *)
(* day numbers; the empty string is NoDate, which is below every date as   *)
(* "" is below every non-empty string.                                     *)
(* A step's progress and successProbability hold a JavaScript number or a  *)
(* numeral string (the value of a range input): the field is the number,   *)
(* or the number the numeral spells, and progressIsString /                *)
(* successProbabilityIsString is typeof value === "string".                *)
(***************************************************************************)
EXTENDS Integers, Sequences, FiniteSets, TLC

VARIABLES
    plans,          \* AppState.plans: sequence of plan records
    activePlanId,   \* AppState.activePlanId (Null before the first load)
    tasks,          \* pending async calls of the editor (savePlan, deletePlanById, loadPlans)
    nextId,         \* source of uid(): the next unused identifier
    edits,          \* number of user operations so far (bounded by MaxEdits)
    call,           \* the last editor run-to-completion segment: what ran, on what, its effects in order
    dbPlans,        \* D1 table plans: set of rows
    dbSteps,        \* D1 table steps: set of rows
    handlers,       \* route handlers in progress or finished: sequence of request records
    requests,       \* number of API requests accepted so far
    eventListenersAttached,  \* the global flag of attachEventListeners
    clickListeners, \* number of 'click' listeners on the root element
    attachCalls     \* number of calls of attachEventListeners so far

vars == <<plans, activePlanId, tasks, nextId, edits, call, dbPlans, dbSteps, handlers, requests,
          eventListenersAttached, clickListeners, attachCalls>>
uiVars == <<eventListenersAttached, clickListeners, attachCalls>>
editorVars == <<plans, activePlanId, tasks, nextId, edits, call,
                eventListenersAttached, clickListeners, attachCalls>>
storeVars == <<dbPlans, dbSteps, handlers, requests>>

----------------------------------------------------------------------------
(* Bounds of the model *)

MaxEdits == 2          \* user operations in one run of the editor
MaxSteps == 6          \* steps of a plan in the editor
Today == 10            \* day number of new Date()
MaxSeqRequests == 3    \* API requests of a client that waits for each response
MaxRequests == 3       \* API requests of clients that do not wait

\* null / undefined where an identifier or number is expected (identifiers start at 1)
Null == 0
\* the empty date string
NoDate == 0
\* undefined where a plan is expected
NoPlan == [id |-> Null]
\* no patch argument
NoPatch == [none |-> TRUE]
\* no result of computePlanStats
NoStats == [none |-> TRUE]

----------------------------------------------------------------------------
(* app.js: constants and pure helpers *)

STATUS == [PLANNED |-> "Planned", CONCLUDED |-> "Concluded"]

Min2(a, b) == IF a < b THEN a ELSE b
Max2(a, b) == IF a > b THEN a ELSE b

\* clamp(n, min, max) on finite numbers
clamp(n, min, max) == Max2(min, Min2(max, n))

\* isoDate(new Date(start.getTime() + days * 24h))
isoDate(start, days) == start + days

\* Object spread { ...base, ...partial }
Spread(base, partial) ==
    [f \in (DOMAIN base) \cup (DOMAIN partial) |->
        IF f \in DOMAIN partial THEN partial[f] ELSE base[f]]

\* JavaScript x || dflt on a number, and on a string
OrNumber(x, dflt) == IF x = 0 THEN dflt ELSE x
OrString(x, dflt) == IF x = "" THEN dflt ELSE x

\* Math.round(x / 2) for an integer x: halves round towards +infinity
RoundHalf(x) == (x + 1) \div 2

\* the decimal digits of a non-negative integer, as String(n) writes them
RECURSIVE DigitsOf(_)
DigitsOf(n) == IF n < 10 THEN <<n>> ELSE Append(DigitsOf(n \div 10), n % 10)

\* the number a sequence of decimal digits spells
RECURSIVE NumberOf(_)
NumberOf(ds) ==
    IF ds = <<>> THEN 0 ELSE NumberOf(SubSeq(ds, 1, Len(ds) - 1)) * 10 + ds[Len(ds)]

\* a + b on numbers and numeral strings: the sum of two numbers, else the
\* concatenation of the two texts (given as the number the result spells)
JsPlus(a, aIsString, b, bIsString) ==
    IF aIsString \/ bIsString THEN NumberOf(DigitsOf(a) \o DigitsOf(b)) ELSE a + b

\* x < y on two strings: comparison of the texts, character by character
StringLess(x, y) ==
    LET dx == DigitsOf(x)
        dy == DigitsOf(y)
    IN  \/ \E k \in 1..Min2(Len(dx), Len(dy)) :
              /\ \A j \in 1..(k - 1) : dx[j] = dy[j]
              /\ dx[k] < dy[k]
        \/ /\ Len(dx) < Len(dy)
           /\ \A j \in 1..Len(dx) : dx[j] = dy[j]

\* a !== n for a number n
StrictlyUnequal(a, aIsString, n) == aIsString \/ a # n

\* a < b on numbers and numeral strings: two strings compare as texts,
\* anything else as numbers
JsLess(a, aIsString, b, bIsString) ==
    IF aIsString /\ bIsString THEN StringLess(a, b) ELSE a < b

makeStep(id, partial) ==
    Spread([id |-> id,
            type |-> "intermediate",
            actionTitle |-> "",
            actionDescription |-> "",
            date |-> NoDate,
            progress |-> 50,
            progressIsString |-> FALSE,
            successProbability |-> 80,
            successProbabilityIsString |-> FALSE,
            status |-> STATUS.PLANNED,
            review |-> ""], partial)

\* a blank plan whose initial step is already concluded
makeBlankPlan_Concluded(id0) ==
    LET start == Today
        end == isoDate(start, 14)
    IN  [id |-> id0 + 2,
         title |-> "New Engagement Plan",
         startDate |-> start,
         endDate |-> end,
         steps |-> <<makeStep(id0, [type |-> "initial", date |-> start, progress |-> 0,
                                    successProbability |-> 50,
                                    status |-> STATUS.CONCLUDED]),
                     makeStep(id0 + 1, [type |-> "end", date |-> end, progress |-> 100,
                                        successProbability |-> 100])>>]

\* makeBlankPlan(): uid() is called for the two steps, then for the plan
makeBlankPlan(id0) ==
    LET start == Today
        end == isoDate(start, 14)
        initial == makeStep(id0, [type |-> "initial", actionTitle |-> "",
                                 actionDescription |-> "", date |-> start,
                                 progress |-> 0, successProbability |-> 50,
                                 status |-> STATUS.PLANNED, review |-> ""])
        endStep == makeStep(id0 + 1, [type |-> "end", actionTitle |-> "",
                                 actionDescription |-> "", date |-> end,
                                 progress |-> 100, successProbability |-> 100,
                                 status |-> STATUS.PLANNED, review |-> ""])
    IN  [id |-> id0 + 2,
         title |-> "New Engagement Plan",
         startDate |-> start,
         endDate |-> end,
         steps |-> <<initial, endStep>>]

makeExamplePlan(id0) ==
    LET start == Today
        end == isoDate(start, 14)
        initial == makeStep(id0, [type |-> "initial", actionTitle |-> "Kickoff call",
                                 actionDescription |-> "Hold a kickoff call",
                                 date |-> start,
                                 progress |-> 0, successProbability |-> 60,
                                 status |-> STATUS.PLANNED, review |-> ""])
        s2 == makeStep(id0 + 1, [actionTitle |-> "Stakeholder mapping",
                                 actionDescription |-> "Delivery Lead maps stakeholders",
                                 date |-> isoDate(start, 2),
                                 progress |-> 20, successProbability |-> 70])
        s3 == makeStep(id0 + 2, [actionTitle |-> "Requirements workshop",
                                 actionDescription |-> "Facilitate workshop",
                                 date |-> isoDate(start, 5),
                                 progress |-> 45, successProbability |-> 75])
        s4 == makeStep(id0 + 3, [actionTitle |-> "Prototype + review",
                                 actionDescription |-> "Build prototype",
                                 date |-> isoDate(start, 9),
                                 progress |-> 70, successProbability |-> 85])
        endStep == makeStep(id0 + 4, [type |-> "end", actionTitle |-> "Engagement concluded",
                                 actionDescription |-> "Final state achieved",
                                 date |-> end,
                                 progress |-> 100, successProbability |-> 100,
                                 status |-> STATUS.PLANNED, review |-> ""])
    IN  [id |-> id0 + 5,
         title |-> "Example Engagement Plan",
         startDate |-> start,
         endDate |-> end,
         steps |-> <<initial, s2, s3, s4, endStep>>]

----------------------------------------------------------------------------
(* JavaScript array helpers *)

\* arr[i] for a 0-based index inside the array
At(arr, i) == arr[i + 1]

InRange(arr, i) == i >= 0 /\ i < Len(arr)

\* arr.findIndex(s => s.id === id), -1 when absent
FindIndexById(arr, id) ==
    IF \E i \in 1..Len(arr) : arr[i].id = id
    THEN (CHOOSE i \in 1..Len(arr) :
            arr[i].id = id /\ \A j \in 1..(i - 1) : arr[j].id # id) - 1
    ELSE -1

\* arr.findIndex(s => s.type === type), -1 when absent
FindIndexByType(arr, type) ==
    IF \E i \in 1..Len(arr) : arr[i].type = type
    THEN (CHOOSE i \in 1..Len(arr) :
            arr[i].type = type /\ \A j \in 1..(i - 1) : arr[j].type # type) - 1
    ELSE -1

\* arr.filter(x => x.id !== id)
RECURSIVE FilterOutId(_, _)
FilterOutId(arr, id) ==
    IF arr = <<>> THEN <<>>
    ELSE IF Head(arr).id # id
         THEN <<Head(arr)>> \o FilterOutId(Tail(arr), id)
         ELSE FilterOutId(Tail(arr), id)

\* copy = [...arr]; copy.splice(index, 0, item)
Splice(arr, index, item) ==
    LET len == Len(arr)
        start == IF index < 0 THEN Max2(len + index, 0) ELSE Min2(index, len)
    IN  SubSeq(arr, 1, start) \o <<item>> \o SubSeq(arr, start + 1, len)

\* copy = [...arr]; [copy[i], copy[j]] = [copy[j], copy[i]]
Swap(arr, i, j) ==
    [k \in 1..Len(arr) |->
        IF k = i + 1 THEN arr[j + 1] ELSE IF k = j + 1 THEN arr[i + 1] ELSE arr[k]]

----------------------------------------------------------------------------
(* computePlanStats *)

\* arr.find(s => s.type === type): TRUE when it finds a step
HasType(steps, type) == \E i \in 1..Len(steps) : steps[i].type = type

\* arr.find(s => s.type === type), where one exists
FindByType(steps, type) == At(steps, FindIndexByType(steps, type))

\* Math.max(...xs) of a non-empty array of numbers
MathMax(xs) ==
    CHOOSE m \in {xs[i] : i \in 1..Len(xs)} : \A i \in 1..Len(xs) : xs[i] <= m

\* s.actionTitle || "(Untitled step)"
TitleOf(s) == OrString(s.actionTitle, "(Untitled step)")

\* a flag: the message, and the step title a per-step message quotes
Flag(msg, title) == [msg |-> msg, title |-> title]

\* the loop over the steps pushing the after-plan-end flag of a step first
RECURSIVE DateFlags_AfterFirst(_, _)
DateFlags_AfterFirst(steps, plan) ==
    IF steps = <<>> THEN <<>>
    ELSE LET s == Head(steps)
             before == IF s.date # NoDate /\ plan.startDate # NoDate /\ s.date < plan.startDate
                       THEN <<Flag("is before plan start.", TitleOf(s))>> ELSE <<>>
             after == IF s.date # NoDate /\ plan.endDate # NoDate /\ s.date > plan.endDate
                      THEN <<Flag("is after plan end.", TitleOf(s))>> ELSE <<>>
         IN  after \o before \o DateFlags_AfterFirst(Tail(steps), plan)

\* the flags the loop over the steps pushes, a step after the other
RECURSIVE DateFlags(_, _)
DateFlags(steps, plan) ==
    IF steps = <<>> THEN <<>>
    ELSE LET s == Head(steps)
             before == IF s.date # NoDate /\ plan.startDate # NoDate /\ s.date < plan.startDate
                       THEN <<Flag("is before plan start.", TitleOf(s))>> ELSE <<>>
             after == IF s.date # NoDate /\ plan.endDate # NoDate /\ s.date > plan.endDate
                      THEN <<Flag("is after plan end.", TitleOf(s))>> ELSE <<>>
         IN  before \o after \o DateFlags(Tail(steps), plan)

\* progresses.some((p, i) => i > 0 && p < progresses[i - 1])
NonMonotonic(progresses) ==
    \E i \in 2..Len(progresses) :
        JsLess(progresses[i].value, progresses[i].isString,
               progresses[i - 1].value, progresses[i - 1].isString)

\* currentProgress taken from the last concluded step
CurrentProgress_LastConcluded(steps) ==
    LET concluded == SelectSeq(steps, LAMBDA s : s.status = STATUS.CONCLUDED)
    IN  IF Len(concluded) > 0 THEN concluded[Len(concluded)].progress ELSE 0

CurrentProgress(steps) ==
    LET concluded == SelectSeq(steps, LAMBDA s : s.status = STATUS.CONCLUDED)
    IN  IF Len(concluded) > 0
        THEN MathMax([i \in 1..Len(concluded) |-> concluded[i].progress])
        ELSE 0

\* remainingPlanned that counts the end step too
RemainingPlanned_CountsEnd(steps) ==
    Len(SelectSeq(steps, LAMBDA s : s.status = STATUS.PLANNED))

RemainingPlanned(steps) ==
    Len(SelectSeq(steps, LAMBDA s : s.status = STATUS.PLANNED /\ s.type # "end"))

\* the start-after-end test without the test for an empty end date
StartAfterEnd_NoEmptyTest(plan) ==
    plan.startDate # NoDate /\ plan.startDate > plan.endDate

\* plan.startDate && plan.endDate && plan.startDate > plan.endDate
StartAfterEnd(plan) ==
    plan.startDate # NoDate /\ plan.endDate # NoDate /\ plan.startDate > plan.endDate

computePlanStats(plan) ==
    LET steps == plan.steps
        currentProgress == CurrentProgress(steps)
        remainingPlanned == RemainingPlanned(steps)
        heuristicProbability == clamp(100 - remainingPlanned * 10, 0, 100)
        endProb == IF HasType(steps, "end")
                   THEN FindByType(steps, "end").successProbability ELSE 100
        displayedProbability == clamp(Min2(endProb, heuristicProbability), 0, 100)
        progresses == [i \in 1..Len(steps) |->
                          [value |-> steps[i].progress, isString |-> steps[i].progressIsString]]
        flags ==
            (IF StartAfterEnd(plan)
             THEN <<Flag("Plan start date is after end date.", "")>> ELSE <<>>)
            \o DateFlags(steps, plan)
            \o (IF NonMonotonic(progresses)
                THEN <<Flag("Progress decreases between steps.", "")>> ELSE <<>>)
            \o (IF HasType(steps, "initial")
                   /\ StrictlyUnequal(FindByType(steps, "initial").progress,
                                      FindByType(steps, "initial").progressIsString, 0)
                THEN <<Flag("Initial Step progress should be 0.", "")>> ELSE <<>>)
            \o (IF HasType(steps, "end")
                   /\ StrictlyUnequal(FindByType(steps, "end").progress,
                                      FindByType(steps, "end").progressIsString, 100)
                THEN <<Flag("End Step progress should be 100.", "")>> ELSE <<>>)
    IN  [currentProgress |-> currentProgress,
         displayedProbability |-> displayedProbability,
         remainingPlanned |-> remainingPlanned,
         flags |-> flags]

----------------------------------------------------------------------------
(* AppState: state container of the editor *)

\* Inputs of the operations
InputValues == {0, 60}

\* { [field]: value } for a number or a numeral string
FieldPatch(field, value, isString) ==
    IF field = "progress"
    THEN [progress |-> value, progressIsString |-> isString]
    ELSE [successProbability |-> value, successProbabilityIsString |-> isString]

StepPatches ==
    {FieldPatch(field, v, FALSE) : field \in {"progress", "successProbability"},
                                   v \in InputValues}
        \cup {[status |-> STATUS.CONCLUDED]}
PlanPatches == {[title |-> "Renamed"], [startDate |-> isoDate(Today, 20)]}
Directions == {-1, 1}

\* An async call of the editor that waits for a fetch; req is the request of the
\* fetch at the store once it has arrived there (0 before)
SaveTask(plan, then) ==
    [fn |-> "savePlan", pc |-> "PUT", plan |-> plan, planId |-> plan.id, then |-> then,
     req |-> 0]
DeleteTask(planId) ==
    [fn |-> "deletePlanById", pc |-> "DELETE", plan |-> NoPlan, planId |-> planId,
     then |-> "deletePlan", req |-> 0]
LoadTask ==
    [fn |-> "loadPlans", pc |-> "GET", plan |-> NoPlan, planId |-> Null, then |-> "none",
     req |-> 0]

RemoveAt(seq, i) == SubSeq(seq, 1, i - 1) \o SubSeq(seq, i + 1, Len(seq))

NoCall ==
    [op |-> "constructor", stepId |-> Null, index |-> Null, dir |-> Null,
     field |-> "", value |-> Null, patch |-> NoPatch, stats |-> NoStats, calls |-> 0, saved |-> NoPlan, planId |-> Null, before |-> <<>>, beforeActive |-> Null,
     log |-> <<>>]

Called(info, log) ==
    Spread(Spread(NoCall, info), [before |-> plans, beforeActive |-> activePlanId, log |-> log])

\* plans[0]?.id
FirstId(ps) == IF ps = <<>> THEN Null ELSE ps[1].id

\* getActivePlan(): this.plans.find(p => p.id === this.activePlanId) || this.plans[0]
getActivePlan(ps, active) ==
    IF \E i \in 1..Len(ps) : ps[i].id = active
    THEN ps[FindIndexById(ps, active) + 1]
    ELSE IF ps # <<>> THEN ps[1] ELSE NoPlan

ActivePlan == getActivePlan(plans, activePlanId)

\* this.plans.map(p => p.id === plan.id ? { ...p, ...patch } : p)
PlansWithPatch(ps, plan, patch) ==
    [i \in 1..Len(ps) |-> IF ps[i].id = plan.id THEN Spread(ps[i], patch) ELSE ps[i]]

\* savePlan(plan): the plan as it was before the patch
SavedPlan_Stale(plan, patch) == plan

\* the body handed to savePlan by updateActivePlan: { ...plan, ...patch }
SavedPlan(plan, patch) == Spread(plan, patch)

\* updateActivePlan(patch)
updateActivePlan(patch, info) ==
    LET plan == ActivePlan
    IN  /\ plan # NoPlan
        /\ plans' = PlansWithPatch(plans, plan, patch)
        /\ tasks' = Append(tasks, SaveTask(SavedPlan(plan, patch), "none"))
        /\ call' = Called(Spread(info, [saved |-> SavedPlan(plan, patch)]),
                          <<"plans", "savePlan", "notify">>)
        /\ UNCHANGED activePlanId

\* updateStep: plan.steps.map(s => s.id === stepId ? { ...s, ...patch } : s)
StepsWithPatch(steps, stepId, patch) ==
    [i \in 1..Len(steps) |->
        IF steps[i].id = stepId THEN Spread(steps[i], patch) ELSE steps[i]]

\* updateStep(stepId, patch)
updateStep(stepId, patch, info) ==
    LET plan == ActivePlan
    IN  /\ plan # NoPlan
        /\ LET updatedPlan == Spread(plan, [steps |-> StepsWithPatch(plan.steps, stepId, patch)])
           IN  /\ plans' = [i \in 1..Len(plans) |->
                               IF plans[i].id = plan.id THEN updatedPlan ELSE plans[i]]
               /\ tasks' = Append(tasks, SaveTask(updatedPlan, "none"))
               /\ call' = Called(Spread(info, [saved |-> updatedPlan]),
                                 <<"plans", "savePlan", "notify">>)
        /\ UNCHANGED activePlanId

\* plan.steps[i]?.progress ?? dflt
ProgressAt(steps, i, dflt) == IF InRange(steps, i) THEN At(steps, i).progress ELSE dflt

\* typeof (plan.steps[i]?.progress ?? dflt) === "string"
ProgressIsStringAt(steps, i) == InRange(steps, i) /\ At(steps, i).progressIsString

\* insertStepAt without the clamp of successProbability
NewStepFor_Unclamped(steps, index, id) ==
    LET nextProgressLeft == ProgressAt(steps, index - 1, 0)
        nextProgressRight == ProgressAt(steps, index, 100)
        midProgress ==
            clamp(RoundHalf(JsPlus(nextProgressLeft, ProgressIsStringAt(steps, index - 1),
                                   nextProgressRight, ProgressIsStringAt(steps, index))),
                  0, 100)
    IN  makeStep(id, [progress |-> midProgress,
                      successProbability |-> 100 - (Len(steps) - 2) * 8])

\* insertStepAt: the step it builds
NewStepFor(steps, index, id) ==
    LET nextProgressLeft == ProgressAt(steps, index - 1, 0)
        nextProgressRight == ProgressAt(steps, index, 100)
        midProgress ==
            clamp(RoundHalf(JsPlus(nextProgressLeft, ProgressIsStringAt(steps, index - 1),
                                   nextProgressRight, ProgressIsStringAt(steps, index))),
                  0, 100)
    IN  makeStep(id, [progress |-> midProgress,
                      successProbability |-> clamp(100 - (Len(steps) - 2) * 8, 0, 100)])

\* insertStepAt: the steps handed to updateActivePlan
InsertedSteps(steps, index, id) == Splice(steps, index, NewStepFor(steps, index, id))

\* removeStep: plan.steps.filter(s => s.id !== stepId)
RemainingSteps(steps, stepId) == FilterOutId(steps, stepId)

\* moveStep with the upper limit one position too far
MoveReturnsEarly_OffByOne(steps, stepId, dir) ==
    LET idx == FindIndexById(steps, stepId)
    IN  \/ idx = -1
        \/ At(steps, idx).type # "intermediate"
        \/ LET minIdx == 1
               maxIdx == Len(steps) - 1
               target == idx + dir
           IN  target < minIdx \/ target > maxIdx

\* moveStep: TRUE where the code returns before the swap
MoveReturnsEarly(steps, stepId, dir) ==
    LET idx == FindIndexById(steps, stepId)
    IN  \/ idx = -1
        \/ At(steps, idx).type # "intermediate"
        \/ LET minIdx == 1
               maxIdx == Len(steps) - 2
               target == idx + dir
           IN  target < minIdx \/ target > maxIdx

\* moveStep swapping with the neighbour on the other side
MovedSteps_OtherSide(steps, stepId, dir) ==
    LET idx == FindIndexById(steps, stepId)
    IN  Swap(steps, idx, idx - dir)

\* moveStep: the steps handed to updateActivePlan
MovedSteps(steps, stepId, dir) ==
    LET idx == FindIndexById(steps, stepId)
    IN  Swap(steps, idx, idx + dir)

----------------------------------------------------------------------------
(* AppState methods, called with any argument *)

UserActs == /\ edits < MaxEdits
            /\ edits' = edits + 1

StepIds(plan) == {plan.steps[i].id : i \in 1..Len(plan.steps)}
PlanIds == {plans[i].id : i \in 1..Len(plans)}

UpdateActivePlan(patch) ==
    /\ UserActs
    /\ updateActivePlan(patch, [op |-> "updateActivePlan", patch |-> patch])
    /\ UNCHANGED nextId

UpdateStep(stepId, patch) ==
    /\ UserActs
    /\ updateStep(stepId, patch, [op |-> "updateStep", stepId |-> stepId, patch |-> patch])
    /\ UNCHANGED nextId

insertStepAt(index, op) ==
    /\ ActivePlan # NoPlan
    /\ updateActivePlan([steps |-> InsertedSteps(ActivePlan.steps, index, nextId)],
                        [op |-> op, index |-> index, stepId |-> nextId])
    /\ nextId' = nextId + 1

InsertStepAt(index) ==
    /\ UserActs
    /\ insertStepAt(index, "insertStepAt")

RemoveStep(stepId) ==
    /\ UserActs
    /\ ActivePlan # NoPlan
    /\ updateActivePlan([steps |-> RemainingSteps(ActivePlan.steps, stepId)],
                        [op |-> "removeStep", stepId |-> stepId])
    /\ UNCHANGED nextId

MoveStep(stepId, dir) ==
    /\ UserActs
    /\ ActivePlan # NoPlan
    /\ IF MoveReturnsEarly(ActivePlan.steps, stepId, dir)
       THEN /\ call' = Called([op |-> "moveStep", stepId |-> stepId, dir |-> dir], <<>>)
            /\ UNCHANGED <<plans, activePlanId, tasks>>
       ELSE updateActivePlan([steps |-> MovedSteps(ActivePlan.steps, stepId, dir)],
                             [op |-> "moveStep", stepId |-> stepId, dir |-> dir])
    /\ UNCHANGED nextId

\* createPlan that puts the new plan behind the plans in memory
CreatePlan_Appends ==
    /\ UserActs
    /\ LET plan == makeBlankPlan(nextId)
       IN  /\ plans' = plans \o <<plan>>
           /\ activePlanId' = plan.id
           /\ tasks' = Append(tasks, SaveTask(plan, "createPlan"))
           /\ call' = Called([op |-> "createPlan", planId |-> plan.id, saved |-> plan],
                             <<"plans", "activePlanId", "savePlan">>)
    /\ nextId' = nextId + 3

\* createPlan() up to its await
CreatePlan ==
    /\ UserActs
    /\ LET plan == makeBlankPlan(nextId)
       IN  /\ plans' = <<plan>> \o plans
           /\ activePlanId' = plan.id
           /\ tasks' = Append(tasks, SaveTask(plan, "createPlan"))
           /\ call' = Called([op |-> "createPlan", planId |-> plan.id, saved |-> plan],
                             <<"plans", "activePlanId", "savePlan">>)
    /\ nextId' = nextId + 3

\* deletePlan(planId) up to its await
DeletePlan(planId) ==
    /\ UserActs
    /\ tasks' = Append(tasks, DeleteTask(planId))
    /\ call' = Called([op |-> "deletePlan", planId |-> planId], <<"deletePlanById">>)
    /\ UNCHANGED <<plans, activePlanId, nextId>>

SetActivePlanId(id) ==
    /\ UserActs
    /\ activePlanId' = id
    /\ call' = Called([op |-> "setActivePlanId", planId |-> id], <<"activePlanId", "notify">>)
    /\ UNCHANGED <<plans, tasks, nextId>>

----------------------------------------------------------------------------
(* Event handlers of attachEventListeners *)

\* what the user leaves in an input of a step card: target.type and the number
\* target.value spells.  A number input takes any number typed into it; a range
\* input keeps its value within min="0" and max="100"
SliderValues == {60, 100}
TargetInputs ==
    [type : {"number"}, value : {0, 150}]
        \cup [type : {"range"}, value : {60}]

\* const value = target.type === 'number' ? parseInt(target.value) || 0 : target.value
\* is a string unless the input is a number input
ValueIsString(target) == target.type # "number"
ValueOf(target) == IF target.type = "number" THEN OrNumber(target.value, 0) ELSE target.value

\* the guardrails of the input handler
GuardedPatch(step, field, target) ==
    IF step.type = "initial" /\ field = "progress" THEN FieldPatch(field, 0, FALSE)
    ELSE IF step.type = "end" /\ field = "progress" THEN FieldPatch(field, 100, FALSE)
    ELSE IF step.type = "end" /\ field = "successProbability" THEN FieldPatch(field, 100, FALSE)
    ELSE FieldPatch(field, ValueOf(target), ValueIsString(target))

\* 'input' on a number or range input of a step card
InputStepField(stepId, field, target) ==
    /\ UserActs
    /\ ActivePlan # NoPlan
    /\ stepId \in StepIds(ActivePlan)
    /\ LET step == At(ActivePlan.steps, FindIndexById(ActivePlan.steps, stepId))
           patch == GuardedPatch(step, field, target)
       IN  updateStep(stepId, patch,
                      [op |-> "input", stepId |-> stepId, field |-> field,
                       value |-> target.value, patch |-> patch])
    /\ UNCHANGED nextId

\* click on a rendered "+" button: data-index is 1..len-1
ClickInsertStep(index) ==
    /\ UserActs
    /\ ActivePlan # NoPlan
    /\ index \in 1..(Len(ActivePlan.steps) - 1)
    /\ insertStepAt(index, "click:insertStep")

\* click on "Add step"
ClickAddStepBeforeEnd ==
    /\ UserActs
    /\ ActivePlan # NoPlan
    /\ insertStepAt(FindIndexByType(ActivePlan.steps, "end"), "click:addStepBeforeEnd")

----------------------------------------------------------------------------
(* Continuations of the editor's async calls; outcome is how the fetch ended: *)
(* "ok" (response.ok), "notok" (a response that is not ok), "reject" (thrown) *)

Outcomes == {"ok", "notok", "reject"}

\* savePlan that restores the plans of before the edit when its fetch fails
SavePlanSettles_RollsBack(i, outcome) ==
    LET t == tasks[i]
    IN  /\ t.fn = "savePlan"
        /\ tasks' = RemoveAt(tasks, i)
        /\ plans' = IF outcome = "ok" THEN plans ELSE call.before
        /\ UNCHANGED <<activePlanId, call, nextId, edits>>

\* savePlan: after the PUT, and after the POST that follows a PUT that was not ok
SavePlanSettles(i, outcome) ==
    LET t == tasks[i]
    IN  /\ t.fn = "savePlan"
        /\ IF t.pc = "PUT" /\ outcome = "notok"
           THEN /\ tasks' = [tasks EXCEPT ![i].pc = "POST", ![i].req = 0]
                /\ UNCHANGED <<plans, activePlanId, call>>
           ELSE /\ tasks' = RemoveAt(tasks, i)
                /\ IF t.then = "createPlan"
                   THEN /\ call' = Called([op |-> "createPlan:resumed", planId |-> t.planId],
                                          <<"notify">>)
                        /\ UNCHANGED <<plans, activePlanId>>
                   ELSE IF t.then = "loadPlans"
                   THEN /\ plans' = <<t.plan>>
                        /\ activePlanId' = t.plan.id
                        /\ call' = Called([op |-> "loadPlans:resumed"],
                                          <<"plans", "activePlanId", "notify">>)
                   ELSE UNCHANGED <<plans, activePlanId, call>>
        /\ UNCHANGED <<nextId, edits>>

\* deletePlan that leaves activePlanId as it is
DeletePlanSettles_KeepsActive(i, outcome) ==
    LET t == tasks[i]
    IN  /\ t.fn = "deletePlanById"
        /\ tasks' = RemoveAt(tasks, i)
        /\ plans' = FilterOutId(plans, t.planId)
        /\ activePlanId' = activePlanId
        /\ call' = Called([op |-> "deletePlan:resumed", planId |-> t.planId],
                          <<"plans", "activePlanId", "notify">>)
        /\ UNCHANGED <<nextId, edits>>

\* deletePlan after await this.deletePlanById(planId), however the fetch ended
DeletePlanSettles(i, outcome) ==
    LET t == tasks[i]
        remaining == FilterOutId(plans, t.planId)
    IN  /\ t.fn = "deletePlanById"
        /\ tasks' = RemoveAt(tasks, i)
        /\ plans' = remaining
        /\ activePlanId' = IF activePlanId = t.planId THEN FirstId(remaining) ELSE activePlanId
        /\ call' = Called([op |-> "deletePlan:resumed", planId |-> t.planId],
                          <<"plans", "activePlanId", "notify">>)
        /\ UNCHANGED <<nextId, edits>>

\* loadPlans after the GET of all plans: list is the response body
LoadPlansSettles(i, outcome, list) ==
    LET t == tasks[i]
        examplePlan == makeExamplePlan(nextId)
    IN  /\ t.fn = "loadPlans"
        /\ IF outcome = "ok" /\ Len(list) = 0
           THEN /\ tasks' = Append(RemoveAt(tasks, i), SaveTask(examplePlan, "loadPlans"))
                /\ nextId' = nextId + 6
                /\ UNCHANGED <<plans, activePlanId, call>>
           ELSE IF outcome = "ok"
           THEN /\ tasks' = RemoveAt(tasks, i)
                /\ plans' = list
                /\ activePlanId' = FirstId(list)
                /\ call' = Called([op |-> "loadPlans:resumed"],
                                  <<"plans", "activePlanId", "notify">>)
                /\ UNCHANGED nextId
           ELSE /\ tasks' = RemoveAt(tasks, i)
                /\ plans' = <<examplePlan>>
                /\ activePlanId' = examplePlan.id
                /\ nextId' = nextId + 6
                /\ call' = Called([op |-> "loadPlans:failed"],
                                  <<"plans", "activePlanId", "notify">>)
        /\ UNCHANGED edits

----------------------------------------------------------------------------
(* index.tsx: the plan store.  Every "await DB.prepare(...)" is one statement *)
(* that D1 runs on its own; a handler is the sequence of its statements, and  *)
(* a statement that fails throws out of the handler (response 500) with the   *)
(* statements before it already applied.                                      *)

\* the row an INSERT INTO steps binds for steps[i] (i is the 0-based loop index)
StepRow(step, planId, i) ==
    [id |-> step.id,
     plan_id |-> planId,
     type |-> step.type,
     action_title |-> OrString(step.actionTitle, ""),
     action_description |-> OrString(step.actionDescription, ""),
     date |-> OrNumber(step.date, NoDate),
     progress |-> OrNumber(step.progress, 0),
     success_probability |-> OrNumber(step.successProbability, 50),
     status |-> OrString(step.status, "Planned"),
     review |-> OrString(step.review, ""),
     step_order |-> i]

PlanRow(id, body) ==
    [id |-> id, title |-> body.title, start_date |-> body.startDate, end_date |-> body.endDate]

\* 0001_initial_schema.sql: the constraints of table steps
StepConstraintsHold(row, planRows, stepRows) ==
    /\ \A r \in stepRows : r.id # row.id                      \* id TEXT PRIMARY KEY
    /\ \E r \in planRows : r.id = row.plan_id                 \* FOREIGN KEY (plan_id)
    /\ row.type \in {"initial", "intermediate", "end"}
    /\ row.progress >= 0 /\ row.progress <= 100
    /\ row.success_probability >= 0 /\ row.success_probability <= 100
    /\ row.status \in {"Planned", "Concluded"}

\* the step object a GET builds from a row
StepJson(s) ==
    [id |-> s.id,
     type |-> s.type,
     actionTitle |-> s.action_title,
     actionDescription |-> s.action_description,
     date |-> s.date,
     progress |-> s.progress,
     successProbability |-> s.success_probability,
     status |-> s.status,
     review |-> s.review]

\* the results SELECT * FROM steps WHERE plan_id = ? ORDER BY step_order ASC may
\* return: rows of equal step_order come in any order
OrderedSteps(stepRows, planId) ==
    LET rows == {r \in stepRows : r.plan_id = planId}
        n == Cardinality(rows)
    IN  {f \in [1..n -> rows] :
            /\ \A i, j \in 1..n : i # j => f[i] # f[j]
            /\ \A i, j \in 1..n : i < j => f[i].step_order <= f[j].step_order}

PlanJson(plan, steps) ==
    [id |-> plan.id,
     title |-> plan.title,
     startDate |-> plan.start_date,
     endDate |-> plan.end_date,
     steps |-> [i \in 1..Len(steps) |-> StepJson(steps[i])]]

NoRow == [id |-> Null]

Request(method, planId, body, pc) ==
    [method |-> method, planId |-> planId, body |-> body, pc |-> pc, i |-> 0,
     status |-> 0, row |-> NoRow, result |-> NoPlan,
     \* for the properties: the handlers that were running when this one started
     running |-> {k \in 1..Len(handlers) : handlers[k].pc # "done"}]

\* a request reaches its route
Accept(method, planId, body) ==
    /\ handlers' = Append(handlers,
            Request(method, planId, body,
                    CASE method = "POST" -> "INSERT plans"
                      [] method = "PUT" -> "UPDATE plans"
                      [] method = "GET" -> "SELECT plans"
                      [] OTHER -> "DELETE plans"))
    /\ requests' = requests + 1
    /\ UNCHANGED <<dbPlans, dbSteps>>

Responds(k, status, result) ==
    handlers' = [handlers EXCEPT ![k].pc = "done", ![k].status = status, ![k].result = result]

\* after the statement before the step loop: enter the loop or return
EntersLoop(k) ==
    IF Len(handlers[k].body.steps) = 0
    THEN Responds(k, 200, NoPlan)
    ELSE handlers' = [handlers EXCEPT ![k].pc = "INSERT steps", ![k].i = 0]

\* POST /api/plans: INSERT INTO plans
PostInsertPlan(k) ==
    LET h == handlers[k]
    IN  /\ h.pc = "INSERT plans"
        /\ IF \E r \in dbPlans : r.id = h.body.id
           THEN Responds(k, 500, NoPlan) /\ UNCHANGED dbPlans
           ELSE dbPlans' = dbPlans \cup {PlanRow(h.body.id, h.body)} /\ EntersLoop(k)
        /\ UNCHANGED <<dbSteps, requests>>

\* PUT /api/plans/:id: UPDATE plans SET ... WHERE id = ?
PutUpdatePlan(k) ==
    LET h == handlers[k]
    IN  /\ h.pc = "UPDATE plans"
        /\ dbPlans' = {IF r.id = h.planId THEN PlanRow(h.planId, h.body) ELSE r : r \in dbPlans}
        /\ handlers' = [handlers EXCEPT ![k].pc = "DELETE steps"]
        /\ UNCHANGED <<dbSteps, requests>>

\* PUT that does not delete the steps of the previous version
PutDeleteSteps_Keeps(k) ==
    LET h == handlers[k]
    IN  /\ h.pc = "DELETE steps"
        /\ dbSteps' = dbSteps
        /\ EntersLoop(k)
        /\ UNCHANGED <<dbPlans, requests>>

\* PUT /api/plans/:id: DELETE FROM steps WHERE plan_id = ?
PutDeleteSteps(k) ==
    LET h == handlers[k]
    IN  /\ h.pc = "DELETE steps"
        /\ dbSteps' = {r \in dbSteps : r.plan_id # h.planId}
        /\ EntersLoop(k)
        /\ UNCHANGED <<dbPlans, requests>>

\* POST and PUT: one INSERT INTO steps of the loop, and the return after the last
InsertStep(k) ==
    LET h == handlers[k]
        planId == IF h.method = "POST" THEN h.body.id ELSE h.planId
        row == StepRow(At(h.body.steps, h.i), planId, h.i)
    IN  /\ h.pc = "INSERT steps"
        /\ IF StepConstraintsHold(row, dbPlans, dbSteps)
           THEN /\ dbSteps' = dbSteps \cup {row}
                /\ IF h.i + 1 < Len(h.body.steps)
                   THEN handlers' = [handlers EXCEPT ![k].i = h.i + 1]
                   ELSE Responds(k, 200, NoPlan)
           ELSE Responds(k, 500, NoPlan) /\ UNCHANGED dbSteps
        /\ UNCHANGED <<dbPlans, requests>>

\* GET /api/plans/:id: SELECT * FROM plans WHERE id = ?, first()
GetSelectPlan(k) ==
    LET h == handlers[k]
    IN  /\ h.pc = "SELECT plans"
        /\ IF \E r \in dbPlans : r.id = h.planId
           THEN handlers' = [handlers EXCEPT
                    ![k].pc = "SELECT steps",
                    ![k].row = CHOOSE r \in dbPlans : r.id = h.planId]
           ELSE Responds(k, 404, NoPlan)
        /\ UNCHANGED <<dbPlans, dbSteps, requests>>

\* GET /api/plans/:id: SELECT * FROM steps ... ORDER BY step_order ASC, and the return
GetSelectSteps(k) ==
    LET h == handlers[k]
    IN  /\ h.pc = "SELECT steps"
        /\ \E steps \in OrderedSteps(dbSteps, h.planId) :
                Responds(k, 200, PlanJson(h.row, steps))
        /\ UNCHANGED <<dbPlans, dbSteps, requests>>

\* DELETE without the cascade to the steps
DeletePlanRow_NoCascade(k) ==
    LET h == handlers[k]
    IN  /\ h.pc = "DELETE plans"
        /\ dbPlans' = {r \in dbPlans : r.id # h.planId}
        /\ dbSteps' = dbSteps
        /\ Responds(k, 200, NoPlan)
        /\ UNCHANGED requests

\* DELETE /api/plans/:id: DELETE FROM plans WHERE id = ?, steps go by ON DELETE CASCADE
DeletePlanRow(k) ==
    LET h == handlers[k]
    IN  /\ h.pc = "DELETE plans"
        /\ dbPlans' = {r \in dbPlans : r.id # h.planId}
        /\ dbSteps' = {r \in dbSteps : r.plan_id # h.planId}
        /\ Responds(k, 200, NoPlan)
        /\ UNCHANGED requests

\* what the store holds of plan id, as GET /api/plans/:id returns it when it runs alone
StoredPlans(id) ==
    {PlanJson(r, steps) : r \in {x \in dbPlans : x.id = id}, steps \in OrderedSteps(dbSteps, id)}

----------------------------------------------------------------------------
(* The editor against a store it cannot see into: every fetch ends in any of *)
(* the three ways, and a first load finds the store empty                    *)

\* the page after its script has run: attachEventListeners() was called once
Started ==
    /\ eventListenersAttached = TRUE
    /\ clickListeners = 1
    /\ attachCalls = 1

Init ==
    /\ plans = <<>>
    /\ activePlanId = Null
    /\ tasks = <<LoadTask>>
    /\ nextId = 1
    /\ edits = 0
    /\ call = NoCall
    /\ dbPlans = {}
    /\ dbSteps = {}
    /\ handlers = <<>>
    /\ requests = 0
    /\ Started

EditorSaveSettles ==
    \E i \in 1..Len(tasks), o \in Outcomes :
        SavePlanSettles(i, o) /\ UNCHANGED storeVars /\ UNCHANGED uiVars
EditorDeleteSettles ==
    \E i \in 1..Len(tasks), o \in Outcomes :
        DeletePlanSettles(i, o) /\ UNCHANGED storeVars /\ UNCHANGED uiVars
EditorLoadSettles ==
    \E i \in 1..Len(tasks), o \in {"ok", "reject"} :
        LoadPlansSettles(i, o, <<>>) /\ UNCHANGED storeVars /\ UNCHANGED uiVars

ActiveStepIds == IF ActivePlan = NoPlan THEN {} ELSE StepIds(ActivePlan)
ActiveLen == IF ActivePlan = NoPlan THEN 0 ELSE Len(ActivePlan.steps)

\* The user of this specification edits between requests: no fetch is pending
Quiet == tasks = <<>>

EditorActs ==
    /\ Quiet
    /\ UNCHANGED storeVars
    /\ UNCHANGED uiVars

\* plans of this specification grow to MaxSteps steps
EditorInserts ==
    /\ EditorActs
    /\ ActiveLen < MaxSteps

NextEditor ==
    \/ \E patch \in PlanPatches : EditorActs /\ UpdateActivePlan(patch)
    \/ \E id \in ActiveStepIds, patch \in StepPatches : EditorActs /\ UpdateStep(id, patch)
    \/ \E index \in -1..(ActiveLen + 1) : EditorInserts /\ InsertStepAt(index)
    \/ \E id \in ActiveStepIds \cup {Null} : EditorActs /\ RemoveStep(id)
    \/ \E id \in ActiveStepIds \cup {Null}, dir \in Directions : EditorActs /\ MoveStep(id, dir)
    \/ EditorActs /\ CreatePlan
    \/ \E id \in PlanIds : EditorActs /\ DeletePlan(id)
    \/ \E id \in PlanIds : EditorActs /\ SetActivePlanId(id)
    \/ \E id \in ActiveStepIds, field \in {"progress", "successProbability"},
          target \in TargetInputs : EditorActs /\ InputStepField(id, field, target)
    \/ \E index \in 1..MaxSteps : EditorInserts /\ ClickInsertStep(index)
    \/ EditorInserts /\ ClickAddStepBeforeEnd
    \/ EditorSaveSettles
    \/ EditorDeleteSettles
    \/ EditorLoadSettles

SpecEditor == Init /\ [][NextEditor]_vars

----------------------------------------------------------------------------
(* The store under API clients (the requests of the regression tests):     *)
(* plans submitted as request bodies                                        *)

\* values of progress and successProbability (150 fails the CHECK constraints) and
\* the status sent with them
Probes ==
    {[v |-> 0, st |-> STATUS.PLANNED], [v |-> 150, st |-> STATUS.PLANNED],
     [v |-> 100, st |-> STATUS.CONCLUDED]}
Statuses == {STATUS.PLANNED, STATUS.CONCLUDED}

\* the steps a client numbers 1 (initial), 2 (end) and 3 (intermediate)
ApiStep(id, v, st) ==
    [id |-> id,
     type |-> IF id = 1 THEN "initial" ELSE IF id = 2 THEN "end" ELSE "intermediate",
     actionTitle |-> IF id = 1 THEN "Initial Step" ELSE IF id = 2 THEN "End Step" ELSE "",
     actionDescription |-> IF id = 1 THEN "Test initial step" ELSE "",
     date |-> IF id = 1 THEN Today ELSE IF id = 2 THEN isoDate(Today, 14) ELSE NoDate,
     progress |-> v,
     successProbability |-> v,
     status |-> st,
     review |-> ""]

ApiPlanId == 4

ApiPlan(title, ids, v, st) ==
    [id |-> ApiPlanId,
     title |-> title,
     startDate |-> Today,
     endDate |-> isoDate(Today, 14),
     steps |-> [i \in 1..Len(ids) |-> ApiStep(ids[i], v, st)]]

StepLists == {<<3>>, <<1, 2>>, <<2, 1>>, <<1, 3, 2>>}

\* bodies of a client that waits for each response
SeqBodies ==
    {ApiPlan(title, ids, 50, STATUS.PLANNED) : title \in {"TEST_PLAN", "UPDATED_TITLE"},
                                                ids \in StepLists}
        \cup {ApiPlan("TEST_PLAN", <<1, 2>>, p.v, p.st) : p \in Probes}

\* bodies of clients that do not wait: two versions of one plan
ConcBodies ==
    {ApiPlan("TEST_PLAN", <<1, 2>>, 50, STATUS.PLANNED),
     ApiPlan("UPDATED_TITLE", <<1, 3, 2>>, 100, STATUS.CONCLUDED)}

AllDone == \A k \in 1..Len(handlers) : handlers[k].pc = "done"

PostRuns == \E k \in 1..Len(handlers) : PostInsertPlan(k) /\ UNCHANGED editorVars
PutUpdates == \E k \in 1..Len(handlers) : PutUpdatePlan(k) /\ UNCHANGED editorVars
PutDeletes == \E k \in 1..Len(handlers) : PutDeleteSteps(k) /\ UNCHANGED editorVars
StepInserted == \E k \in 1..Len(handlers) : InsertStep(k) /\ UNCHANGED editorVars
GetReadsPlan == \E k \in 1..Len(handlers) : GetSelectPlan(k) /\ UNCHANGED editorVars
GetReadsSteps == \E k \in 1..Len(handlers) : GetSelectSteps(k) /\ UNCHANGED editorVars
DeleteRuns == \E k \in 1..Len(handlers) : DeletePlanRow(k) /\ UNCHANGED editorVars

\* one client, one request at a time
SeqClient ==
    /\ AllDone
    /\ requests < MaxSeqRequests
    /\ UNCHANGED editorVars

NextStoreSeq ==
    \/ \E body \in SeqBodies : SeqClient /\ Accept("POST", body.id, body)
    \/ \E body \in SeqBodies : SeqClient /\ Accept("PUT", body.id, body)
    \/ SeqClient /\ Accept("GET", ApiPlanId, NoPlan)
    \/ SeqClient /\ Accept("DELETE", ApiPlanId, NoPlan)
    \/ PostRuns
    \/ PutUpdates
    \/ PutDeletes
    \/ StepInserted
    \/ GetReadsPlan
    \/ GetReadsSteps
    \/ DeleteRuns

SpecStoreSeq == Init /\ [][NextStoreSeq]_vars

\* clients that do not wait for each other
ConcClient ==
    /\ requests < MaxRequests
    /\ UNCHANGED editorVars

NextStore ==
    \/ \E body \in ConcBodies : ConcClient /\ Accept("POST", body.id, body)
    \/ \E body \in ConcBodies : ConcClient /\ Accept("PUT", body.id, body)
    \/ ConcClient /\ Accept("GET", ApiPlanId, NoPlan)
    \/ ConcClient /\ Accept("DELETE", ApiPlanId, NoPlan)
    \/ PostRuns
    \/ PutUpdates
    \/ PutDeletes
    \/ StepInserted
    \/ GetReadsPlan
    \/ GetReadsSteps
    \/ DeleteRuns

SpecStore == Init /\ [][NextStore]_vars

----------------------------------------------------------------------------
(* render() over the plans a load can bring into memory: computePlanStats of *)
(* the active plan                                                            *)

MaxStatSteps == 3      \* steps of a plan whose fields vary freely
MaxPlanned == 13       \* planned intermediate steps of a long plan
MaxInserts == 1        \* insertions into a long plan

StepTypes == {"initial", "intermediate", "end"}
StatProgress == {0, 40, 100}
StatDates == {NoDate, isoDate(Today, -5), isoDate(Today, 5), isoDate(Today, 15)}
PlanDates == {NoDate, Today, isoDate(Today, 10)}
EndProbabilities == {0, 50, 100}

StatStep(id, type, status, progress, prob, date, title) ==
    makeStep(id, [type |-> type, status |-> status, progress |-> progress,
                  successProbability |-> prob, date |-> date, actionTitle |-> title])

StatPlan(start, end, steps) ==
    [id |-> Len(steps) + 1, title |-> "Plan", startDate |-> start, endDate |-> end,
     steps |-> steps]

\* a plan whose steps vary in role, status and progress
ProgressShapes == [type : StepTypes, status : Statuses, progress : StatProgress]
ProgressPlan(f) ==
    StatPlan(Today, isoDate(Today, 14),
             [i \in DOMAIN f |-> StatStep(i, f[i].type, f[i].status, f[i].progress,
                                          IF f[i].type = "end" THEN 100 ELSE 80,
                                          NoDate, "Step")])

\* a plan of k planned intermediate steps between an initial step and, where
\* hasEnd, an end step
LongPlan(k, st, endSt, p, hasEnd) ==
    StatPlan(Today, isoDate(Today, 14),
             [i \in 1..(k + 1 + (IF hasEnd THEN 1 ELSE 0)) |->
                   IF i = 1 THEN StatStep(i, "initial", st, 0, 50, NoDate, "Step")
                   ELSE IF i = k + 2 THEN StatStep(i, "end", endSt, 100, p, NoDate, "Step")
                   ELSE StatStep(i, "intermediate", STATUS.PLANNED, 50, 80, NoDate, "Step")])

\* a plan whose dates and step dates vary; where roles, its first step is an
\* initial step of progress 50 and its last step (of two or more) an end step of
\* progress 40
DatedShapes == [date : StatDates, title : {"", "Step"}]
DatedPlan(start, end, f, roles) ==
    StatPlan(start, end,
             [i \in DOMAIN f |->
                IF roles /\ i = 1
                THEN StatStep(i, "initial", STATUS.PLANNED, 50, 80, f[i].date, f[i].title)
                ELSE IF roles /\ i = Len(f)
                THEN StatStep(i, "end", STATUS.PLANNED, 40, 100, f[i].date, f[i].title)
                ELSE StatStep(i, "intermediate", STATUS.PLANNED, 50, 80,
                              f[i].date, f[i].title)])

\* the example plan after the sliders of its second and third step were moved
\* to a and b
SliderPlan(a, b) ==
    LET plan == makeExamplePlan(1)
    IN  Spread(plan,
               [steps |-> StepsWithPatch(
                            StepsWithPatch(plan.steps, plan.steps[2].id,
                                           FieldPatch("progress", a, TRUE)),
                            plan.steps[3].id, FieldPatch("progress", b, TRUE))])

\* memory holds plan: after a load that found it, or after the edits that made it
Loaded(plan) ==
    /\ plans = <<plan>>
    /\ activePlanId = plan.id
    /\ tasks = <<>>
    /\ nextId = plan.id + 1
    /\ edits = 0
    /\ call = NoCall
    /\ dbPlans = {}
    /\ dbSteps = {}
    /\ handlers = <<>>
    /\ requests = 0
    /\ Started

InitStats ==
    \/ \E n \in 0..MaxStatSteps : \E f \in [1..n -> ProgressShapes] : Loaded(ProgressPlan(f))
    \/ \E k \in 0..MaxPlanned, st \in Statuses, endSt \in Statuses,
          p \in EndProbabilities, hasEnd \in BOOLEAN : Loaded(LongPlan(k, st, endSt, p, hasEnd))
    \/ \E n \in 0..MaxStatSteps : \E f \in [1..n -> DatedShapes] :
          \E start \in PlanDates, end \in PlanDates, roles \in BOOLEAN :
                Loaded(DatedPlan(start, end, f, roles))
    \/ \E a \in SliderValues, b \in SliderValues : Loaded(SliderPlan(a, b))
    \/ Loaded(makeBlankPlan(1))
    \/ Loaded(makeExamplePlan(1))

\* render(): const stats = computePlanStats(plan)
Render ==
    /\ ActivePlan # NoPlan
    /\ call.op # "render"
    /\ call' = Called([op |-> "render", stats |-> computePlanStats(ActivePlan)], <<>>)
    /\ UNCHANGED <<plans, activePlanId, tasks, nextId, edits>>
    /\ UNCHANGED storeVars
    /\ UNCHANGED uiVars

NextStats == Render

SpecStats == InitStats /\ [][NextStats]_vars

----------------------------------------------------------------------------
(* Insertions into plans of every length from 1 to MaxPlanned + 2 steps *)

InitInsert ==
    \E k \in 0..MaxPlanned, hasEnd \in BOOLEAN :
        Loaded(LongPlan(k, STATUS.PLANNED, STATUS.PLANNED, 100, hasEnd))

InsertActs ==
    /\ edits < MaxInserts
    /\ UNCHANGED storeVars
    /\ UNCHANGED uiVars

NextInsert ==
    \/ \E index \in -1..(ActiveLen + 1) : InsertActs /\ InsertStepAt(index)
    \/ \E index \in 1..(MaxPlanned + 2) : InsertActs /\ ClickInsertStep(index)
    \/ InsertActs /\ ActiveStepIds # {} /\ ClickAddStepBeforeEnd
    \/ EditorSaveSettles

SpecInsert == InitInsert /\ [][NextInsert]_vars

----------------------------------------------------------------------------
(* The page from the start of its script: attachEventListeners, render and *)
(* clicks on the New button                                                 *)

MaxAttachCalls == 3    \* calls of attachEventListeners

\* attachEventListeners that adds its listeners at every call
AttachEventListeners_NoFlag ==
    /\ attachCalls < MaxAttachCalls
    /\ attachCalls' = attachCalls + 1
    /\ eventListenersAttached' = TRUE
    /\ clickListeners' = clickListeners + 1
    /\ UNCHANGED <<plans, activePlanId, tasks, nextId, edits, call>>
    /\ UNCHANGED storeVars

\* attachEventListeners()
AttachEventListeners ==
    /\ attachCalls < MaxAttachCalls
    /\ attachCalls' = attachCalls + 1
    /\ IF eventListenersAttached
       THEN UNCHANGED <<eventListenersAttached, clickListeners>>
       ELSE /\ eventListenersAttached' = TRUE
            /\ clickListeners' = clickListeners + 1
    /\ UNCHANGED <<plans, activePlanId, tasks, nextId, edits, call>>
    /\ UNCHANGED storeVars

\* the plans n calls of createPlan() put in front of ps, the last call's first
RECURSIVE CreatedPlans(_, _, _)
CreatedPlans(n, id, ps) ==
    IF n = 0 THEN ps
    ELSE CreatedPlans(n - 1, id + 3, <<makeBlankPlan(id)>> \o ps)

\* the saves n calls of createPlan() issue
RECURSIVE CreatedSaves(_, _)
CreatedSaves(n, id) ==
    IF n = 0 THEN <<>>
    ELSE <<SaveTask(makeBlankPlan(id), "createPlan")>> \o CreatedSaves(n - 1, id + 3)

\* a click on a button with data-action="createPlan": every 'click' listener of
\* the root element runs and calls appState.createPlan()
ClickCreatePlan ==
    /\ UserActs
    /\ attachCalls >= 1
    /\ plans' = CreatedPlans(clickListeners, nextId, plans)
    /\ activePlanId' = IF clickListeners = 0 THEN activePlanId ELSE plans'[1].id
    /\ tasks' = tasks \o CreatedSaves(clickListeners, nextId)
    /\ nextId' = nextId + 3 * clickListeners
    /\ call' = Called([op |-> "click:createPlan", calls |-> clickListeners], <<>>)
    /\ UNCHANGED uiVars
    /\ UNCHANGED storeVars

\* the script has built appState and not yet called attachEventListeners
InitListeners ==
    /\ plans = <<>>
    /\ activePlanId = Null
    /\ tasks = <<LoadTask>>
    /\ nextId = 1
    /\ edits = 0
    /\ call = NoCall
    /\ dbPlans = {}
    /\ dbSteps = {}
    /\ handlers = <<>>
    /\ requests = 0
    /\ eventListenersAttached = FALSE
    /\ clickListeners = 0
    /\ attachCalls = 0

NextListeners ==
    \/ AttachEventListeners
    \/ Render
    \/ ClickCreatePlan
    \/ EditorSaveSettles
    \/ EditorLoadSettles

SpecListeners == InitListeners /\ [][NextListeners]_vars

----------------------------------------------------------------------------
(* The editor and the store together: every fetch of the editor arrives at   *)
(* its route, the handler runs statement by statement, and the response      *)
(* settles the call that waits for it.  Neither the network nor the store    *)
(* keeps the requests in the order they were issued.                         *)

\* the first load found the store empty and saved the example plan
InitApp ==
    LET examplePlan == makeExamplePlan(1)
    IN  /\ plans = <<examplePlan>>
        /\ activePlanId = examplePlan.id
        /\ tasks = <<>>
        /\ nextId = 7
        /\ edits = 0
        /\ call = NoCall
        /\ dbPlans = {PlanRow(examplePlan.id, examplePlan)}
        /\ dbSteps = {StepRow(examplePlan.steps[i], examplePlan.id, i - 1) :
                        i \in 1..Len(examplePlan.steps)}
        /\ handlers = <<>>
        /\ requests = 0
        /\ Started

\* fetch(...): the request of task i reaches the store
AppSends ==
    \E i \in 1..Len(tasks) :
        LET t == tasks[i]
        IN  /\ t.req = 0
            /\ t.fn \in {"savePlan", "deletePlanById"}
            /\ Accept(t.pc, t.planId, t.plan)
            /\ tasks' = [tasks EXCEPT ![i].req = Len(handlers) + 1]
            /\ UNCHANGED <<plans, activePlanId, nextId, edits, call>>
            /\ UNCHANGED uiVars

\* response.ok of the response a handler returned
ResponseOutcome(h) == IF h.status >= 200 /\ h.status <= 299 THEN "ok" ELSE "notok"

\* the response of a PUT or POST comes back to savePlan
AppSaveSettles ==
    \E i \in 1..Len(tasks) :
        /\ tasks[i].req # 0
        /\ handlers[tasks[i].req].pc = "done"
        /\ SavePlanSettles(i, ResponseOutcome(handlers[tasks[i].req]))
        /\ UNCHANGED storeVars
        /\ UNCHANGED uiVars

\* the response of a DELETE comes back to deletePlanById
AppDeleteSettles ==
    \E i \in 1..Len(tasks) :
        /\ tasks[i].req # 0
        /\ handlers[tasks[i].req].pc = "done"
        /\ DeletePlanSettles(i, ResponseOutcome(handlers[tasks[i].req]))
        /\ UNCHANGED storeVars
        /\ UNCHANGED uiVars

\* the user acts whether or not a fetch is pending
AppActs ==
    /\ UNCHANGED storeVars
    /\ UNCHANGED uiVars

NextApp ==
    \/ \E patch \in PlanPatches : AppActs /\ UpdateActivePlan(patch)
    \/ \E id \in ActiveStepIds, dir \in Directions : AppActs /\ MoveStep(id, dir)
    \/ AppActs /\ CreatePlan
    \/ \E id \in PlanIds : AppActs /\ DeletePlan(id)
    \/ AppSends
    \/ AppSaveSettles
    \/ AppDeleteSettles
    \/ PostRuns
    \/ PutUpdates
    \/ PutDeletes
    \/ StepInserted
    \/ DeleteRuns

SpecApp == InitApp /\ [][NextApp]_vars

----------------------------------------------------------------------------
(* Properties of the editor operations.  call holds the operation that ran  *)
(* last, its arguments and the plans it found.                              *)

BeforePlan == getActivePlan(call.before, call.beforeActive)
BeforeSteps == BeforePlan.steps

\* the plan the operation worked on, as memory holds it now
AfterPlan == getActivePlan(plans, BeforePlan.id)
AfterSteps == AfterPlan.steps

IsBoundary(step) == step.type \in {"initial", "end"}

\* C1: for every plan, after any sequence of insertStepAt, removeStep, moveStep
\* and updateStep, the first step has role initial and the last step has role end
C1_BoundaryRoles ==
    \A i \in 1..Len(plans) :
        LET steps == plans[i].steps
        IN  /\ steps # <<>>
            /\ steps[1].type = "initial"
            /\ steps[Len(steps)].type = "end"

\* C2: removeStep is a no-op on an initial or end step (a plan never drops below
\* 2 steps); on an intermediate step the count decreases by exactly 1 and the
\* remaining steps keep their relative order
C2_RemoveStepRefuses ==
    call.op = "removeStep" =>
        LET idx == FindIndexById(BeforeSteps, call.stepId)
        IN  /\ (Len(BeforeSteps) >= 2 => Len(AfterSteps) >= 2)
            /\ idx # -1 =>
                IF IsBoundary(At(BeforeSteps, idx))
                THEN AfterSteps = BeforeSteps
                ELSE /\ Len(AfterSteps) = Len(BeforeSteps) - 1
                     /\ AfterSteps = RemoveAt(BeforeSteps, idx + 1)

\* C3: updateStep on the initial step with a patch that contains progress leaves
\* that step with progress 0, whatever value the patch carried
C3_InitialProgressLocked ==
    (call.op \in {"updateStep", "input"} /\ "progress" \in DOMAIN call.patch) =>
        \A i \in 1..Len(BeforeSteps) :
            (BeforeSteps[i].id = call.stepId /\ BeforeSteps[i].type = "initial")
                => AfterSteps[i].progress = 0

\* C4: updateStep on the end step with a patch that contains progress or
\* successProbability leaves those fields at 100, whatever values the patch carried
C4_EndLocked ==
    call.op \in {"updateStep", "input"} =>
        \A i \in 1..Len(BeforeSteps) :
            (BeforeSteps[i].id = call.stepId /\ BeforeSteps[i].type = "end") =>
                /\ "progress" \in DOMAIN call.patch => AfterSteps[i].progress = 100
                /\ "successProbability" \in DOMAIN call.patch
                        => AfterSteps[i].successProbability = 100

\* the cases in which C5 says moveStep changes nothing
MoveIsNoop(steps, stepId, dir) ==
    LET idx == FindIndexById(steps, stepId)
    IN  \/ idx = -1
        \/ IsBoundary(At(steps, idx))
        \/ idx + dir < 1
        \/ idx + dir > Len(steps) - 2

\* C5: moveStep leaves the step sequence unchanged when the step is the initial
\* or end step, or when index+direction falls outside [1, len-2], each time it
\* is applied
C5_MoveNoop ==
    (call.op = "moveStep" /\ MoveIsNoop(BeforeSteps, call.stepId, call.dir)) =>
        /\ plans = call.before
        /\ activePlanId = call.beforeActive

\* a move of an intermediate step past the last interior position has run
C5_Witness ==
    /\ call.op = "moveStep"
    /\ FindIndexById(BeforeSteps, call.stepId) = Len(BeforeSteps) - 2
    /\ Len(BeforeSteps) >= 4
    /\ call.dir = 1
    /\ plans = call.before

\* C6: insertStepAt with index <= 0 or index >= number of steps is rejected or
\* clamped: the new step never comes before the initial step or after the end step
C6_InsertStaysInterior ==
    (call.op = "insertStepAt" /\ (call.index <= 0 \/ call.index >= Len(BeforeSteps))) =>
        LET pos == FindIndexById(AfterSteps, call.stepId)
        IN  \/ pos = -1
            \/ /\ \A j \in 1..Len(AfterSteps) :
                      AfterSteps[j].type = "initial" => j - 1 < pos
               /\ \A j \in 1..Len(AfterSteps) :
                      AfterSteps[j].type = "end" => j - 1 > pos

----------------------------------------------------------------------------
(* Order of effects of the mutating operations *)

EditOps ==
    {"updateActivePlan", "updateStep", "insertStepAt", "removeStep", "moveStep",
     "input", "click:insertStep", "click:addStepBeforeEnd"}

\* the operation changed something (moveStep that returned early did not)
Mutated == call.log # <<>>

\* in log, a comes before b
Precedes(log, a, b) ==
    \E i, j \in 1..Len(log) : i < j /\ log[i] = a /\ log[j] = b

HasPending(fn, planId) ==
    \E k \in 1..Len(tasks) : tasks[k].fn = fn /\ tasks[k].planId = planId

----------------------------------------------------------------------------
(* Properties of the store *)

StepIdsOf(steps) == [i \in 1..Len(steps) |-> steps[i].id]

Finished(k, method, status) ==
    /\ handlers[k].method = method
    /\ handlers[k].pc = "done"
    /\ handlers[k].status = status

\* C7: creating a plan (POST) and then fetching it by id (GET) returns a plan
\* equal to the original field for field, steps in the same order, for every
\* progress and successProbability in [0,100] and every status
C7_RoundTrip ==
    \A k \in 1..(Len(handlers) - 1) :
        (/\ Finished(k, "POST", 200)
         /\ handlers[k + 1].method = "GET"
         /\ handlers[k + 1].pc = "done")
            => /\ handlers[k + 1].status = 200
               /\ handlers[k + 1].result = handlers[k].body

C22_DeleteThenNotFound ==
    \A k \in 1..Len(handlers) :
        (/\ handlers[k].method = "DELETE"
         /\ handlers[k].pc = "done") =>
            /\ handlers[k].status = 200
            /\ k = Len(handlers) =>
                    /\ \A r \in dbPlans : r.id # handlers[k].planId
                    /\ \A r \in dbSteps : r.plan_id # handlers[k].planId
            /\ (k < Len(handlers) /\ handlers[k + 1].method = "GET"
                    /\ handlers[k + 1].pc = "done") =>
                    /\ handlers[k + 1].status = 404
                    /\ handlers[k + 1].result = NoPlan

\* a plan with steps was created, deleted and then fetched
C22_Witness ==
    /\ Len(handlers) = 3
    /\ Finished(1, "POST", 200)
    /\ Len(handlers[1].body.steps) = 3
    /\ Finished(2, "DELETE", 200)
    /\ Finished(3, "GET", 404)
    /\ dbSteps = {}


SubmittedStepLists ==
    {handlers[j].body.steps : j \in {i \in 1..Len(handlers) : handlers[i].method \in {"POST", "PUT"}}}

\* the plan was created by a POST that ran alone, and every later request is a
\* PUT or a GET of it
CreatedThenPutsAndGets ==
    /\ Len(handlers) >= 1
    /\ Finished(1, "POST", 200)
    /\ \A j \in 2..Len(handlers) :
            /\ handlers[j].method \in {"PUT", "GET"}
            /\ 1 \notin handlers[j].running

\* C9: a GET of a plan that runs concurrently with a PUT of the same plan (or two
\* concurrent PUTs) never observes or leaves a plan whose step list is a partial
\* or mixed version of the submitted plans
C9_Atomic ==
    CreatedThenPutsAndGets =>
        /\ \A k \in 1..Len(handlers) :
                Finished(k, "GET", 200) => handlers[k].result.steps \in SubmittedStepLists
        /\ AllDone =>
                \A stored \in StoredPlans(handlers[1].planId) :
                    stored.steps \in SubmittedStepLists

----------------------------------------------------------------------------
(* Failed persistence calls *)

\* task i of the editor settles in this step: its fetch ended and its
\* continuation ran (a PUT that was not ok goes on to the POST)
Settles(i) ==
    /\ i \in 1..Len(tasks)
    /\ \/ tasks' = RemoveAt(tasks, i)
       \/ tasks' = [tasks EXCEPT ![i].pc = "POST", ![i].req = 0] /\ tasks[i].pc = "PUT"

\* C11: a failed persistence call (network error or non-OK response) never
\* changes or rolls back the in-memory plans and never stops the operation that
\* waits for it: however the fetch of savePlan or deletePlanById ends, memory
\* after it is what the edit produced
C11_FailureKeepsMemory ==
    [][\A i \in 1..Len(tasks) :
        Settles(i) =>
            /\ (tasks[i].fn = "savePlan" /\ tasks[i].then \in {"none", "createPlan"}) =>
                    /\ plans' = plans
                    /\ activePlanId' = activePlanId
            /\ (tasks[i].fn = "savePlan" /\ tasks[i].then = "createPlan"
                    /\ Len(tasks') < Len(tasks)) =>
                    call'.op = "createPlan:resumed"
            /\ (tasks[i].fn = "savePlan" /\ tasks[i].then = "loadPlans"
                    /\ Len(tasks') < Len(tasks)) =>
                    /\ plans' = <<tasks[i].plan>>
                    /\ activePlanId' = tasks[i].plan.id
            /\ tasks[i].fn = "deletePlanById" =>
                    /\ plans' = FilterOutId(plans, tasks[i].planId)
                    /\ call'.op = "deletePlan:resumed"]_vars

\* the PUT of a step update was answered with a response that is not ok (the
\* save went on to its POST) and memory holds the updated plan
C11_Witness ==
    /\ call.op = "updateStep"
    /\ \E k \in 1..Len(tasks) :
            /\ tasks[k].fn = "savePlan"
            /\ tasks[k].pc = "POST"
            /\ tasks[k].plan = call.saved
    /\ getActivePlan(plans, call.saved.id) = call.saved
    /\ plans # call.before

----------------------------------------------------------------------------
(* Properties of computePlanStats: call.stats is its result for the plan in *)
(* memory                                                                    *)

Rendered == call.op = "render"
StatsSteps == BeforePlan.steps

\* the positions of the steps that satisfy a condition
ConcludedAt == {i \in 1..Len(StatsSteps) : StatsSteps[i].status = "Concluded"}
PlannedNotEndAt ==
    {i \in 1..Len(StatsSteps) :
        StatsSteps[i].status = "Planned" /\ StatsSteps[i].type # "end"}
EndAt == {i \in 1..Len(StatsSteps) : StatsSteps[i].type = "end"}
DecreaseAt == {i \in 2..Len(StatsSteps) : StatsSteps[i].progress < StatsSteps[i - 1].progress}

\* how many times a message is in the flags
CountFlag(flags, msg) == Cardinality({i \in 1..Len(flags) : flags[i].msg = msg})

\* C12: currentProgress is the maximum progress over all steps with status
\* Concluded, regardless of their position, and 0 when no step is Concluded
C12_CurrentProgress ==
    Rendered =>
        IF ConcludedAt = {}
        THEN call.stats.currentProgress = 0
        ELSE /\ \E i \in ConcludedAt : StatsSteps[i].progress = call.stats.currentProgress
             /\ \A i \in ConcludedAt : StatsSteps[i].progress <= call.stats.currentProgress

\* the concluded step of highest progress is neither the last concluded step nor
\* the last step
C12_Witness ==
    /\ Rendered
    /\ Len(StatsSteps) = 3
    /\ ConcludedAt = {1, 2}
    /\ StatsSteps[1].progress = 100
    /\ StatsSteps[2].progress = 40
    /\ call.stats.currentProgress = 100

\* C13: remainingPlanned is the number of steps that are Planned and not of role
\* end (a Planned initial step counts), and displayedProbability is
\* clamp(min(end step's successProbability, clamp(100 - 10*remainingPlanned, 0,
\* 100)), 0, 100), with 100 for the end step's value when no end step exists
C13_Probability ==
    Rendered =>
        LET n == Cardinality(PlannedNotEndAt)
            raw == 100 - 10 * n
            heuristic == IF raw < 0 THEN 0 ELSE IF raw > 100 THEN 100 ELSE raw
            endProb == IF EndAt = {} THEN 100
                       ELSE StatsSteps[CHOOSE i \in EndAt : \A j \in EndAt : i <= j].successProbability
            least == IF endProb < heuristic THEN endProb ELSE heuristic
        IN  /\ call.stats.remainingPlanned = n
            /\ call.stats.displayedProbability =
                    (IF least < 0 THEN 0 ELSE IF least > 100 THEN 100 ELSE least)

\* a Planned initial step is counted, the end step is Planned and not counted,
\* and the end step's value is the lower one
C13_Witness ==
    /\ Rendered
    /\ Len(StatsSteps) = 5
    /\ StatsSteps[1].type = "initial" /\ StatsSteps[1].status = "Planned"
    /\ StatsSteps[5].type = "end" /\ StatsSteps[5].status = "Planned"
    /\ StatsSteps[5].successProbability = 50
    /\ call.stats.remainingPlanned = 4
    /\ call.stats.displayedProbability = 50

\* C14: for a blank plan as the blank-plan constructor produces it (2 steps,
\* initial progress 0, end progress 100, both Planned), computePlanStats yields
\* currentProgress 0, remainingPlanned 0, displayedProbability 100 and no flags
C14_BlankPlanStats ==
    (Rendered /\ BeforePlan = makeBlankPlan(1)) =>
        /\ call.stats.currentProgress = 0
        /\ call.stats.remainingPlanned = 0
        /\ call.stats.displayedProbability = 100
        /\ call.stats.flags = <<>>

\* C14 as the code has it: the Planned initial step of the blank plan counts, so
\* computePlanStats yields currentProgress 0, remainingPlanned 1,
\* displayedProbability 90 and no flags
C14_Amended ==
    (Rendered /\ BeforePlan = makeBlankPlan(1)) =>
        /\ call.stats.currentProgress = 0
        /\ call.stats.remainingPlanned = 1
        /\ call.stats.displayedProbability = 90
        /\ call.stats.flags = <<>>

\* the blank plan was rendered
C14_Witness ==
    /\ Rendered
    /\ BeforePlan = makeBlankPlan(1)
    /\ Len(StatsSteps) = 2
    /\ StatsSteps[1].status = "Planned" /\ StatsSteps[1].progress = 0
    /\ StatsSteps[2].status = "Planned" /\ StatsSteps[2].progress = 100
    /\ call.stats # NoStats

\* C15: the progress-decreases flag is added exactly once if and only if some
\* step's progress is strictly less than the progress of the step immediately
\* before it; it is never added once per offending pair
C15_DecreaseFlagOnce ==
    Rendered =>
        CountFlag(call.stats.flags, "Progress decreases between steps.")
            = (IF DecreaseAt # {} THEN 1 ELSE 0)

\* C16: the flag "Plan start date is after end date." is added if and only if
\* startDate and endDate are both non-empty and startDate is greater than endDate
\* under string comparison
C16_StartAfterEndFlag ==
    Rendered =>
        (CountFlag(call.stats.flags, "Plan start date is after end date.") >= 1
            <=> (/\ BeforePlan.startDate # NoDate
                 /\ BeforePlan.endDate # NoDate
                 /\ BeforePlan.startDate > BeforePlan.endDate))

\* a plan that starts after it ends was rendered with the flag first
C16_Witness ==
    /\ Rendered
    /\ BeforePlan.startDate = isoDate(Today, 10)
    /\ BeforePlan.endDate = Today
    /\ call.stats.flags # <<>>
    /\ call.stats.flags[1].msg = "Plan start date is after end date."

\* the place of a message in the order of the checks
FlagRank(msg) ==
    CASE msg = "Plan start date is after end date." -> 1
      [] msg = "is before plan start." -> 2
      [] msg = "is after plan end." -> 2
      [] msg = "Progress decreases between steps." -> 3
      [] msg = "Initial Step progress should be 0." -> 4
      [] OTHER -> 5

\* <<i, 1>> where step i is dated before the plan starts, <<i, 2>> where it is
\* dated after the plan ends
DateFindings ==
    {<<i, 1>> : i \in {j \in 1..Len(StatsSteps) :
                    /\ StatsSteps[j].date # NoDate
                    /\ BeforePlan.startDate # NoDate
                    /\ StatsSteps[j].date < BeforePlan.startDate}}
    \cup
    {<<i, 2>> : i \in {j \in 1..Len(StatsSteps) :
                    /\ StatsSteps[j].date # NoDate
                    /\ BeforePlan.endDate # NoDate
                    /\ StatsSteps[j].date > BeforePlan.endDate}}

\* how many findings come before finding p or are p
FindingsUpTo(p) ==
    Cardinality({q \in DateFindings : q[1] < p[1] \/ (q[1] = p[1] /\ q[2] <= p[2])})

\* C24: the flags come in a fixed order: the start-after-end flag first, then the
\* per-step date flags in step order (for one step the before-plan-start flag
\* precedes the after-plan-end flag, and both are appended when both conditions
\* hold), then the progress-decreases flag, then the initial-progress flag, then
\* the end-progress flag
C24_FlagOrder ==
    Rendered =>
        LET flags == call.stats.flags
            dated == SelectSeq(flags, LAMBDA f : FlagRank(f.msg) = 2)
        IN  /\ \A i, j \in 1..Len(flags) :
                    i < j => FlagRank(flags[i].msg) <= FlagRank(flags[j].msg)
            /\ Len(dated) = Cardinality(DateFindings)
            /\ \A p \in DateFindings :
                    LET flag == dated[FindingsUpTo(p)]
                        title == IF StatsSteps[p[1]].actionTitle = ""
                                 THEN "(Untitled step)" ELSE StatsSteps[p[1]].actionTitle
                    IN  /\ flag.title = title
                        /\ flag.msg = (IF p[2] = 1 THEN "is before plan start."
                                       ELSE "is after plan end.")

\* a plan that starts after it ends, with a step between the two dates that is
\* flagged twice, and with the three progress flags after the date flags
C24_Witness ==
    /\ Rendered
    /\ Len(call.stats.flags) >= 6
    /\ \E i \in 1..Len(StatsSteps) : <<i, 1>> \in DateFindings /\ <<i, 2>> \in DateFindings
    /\ \E i \in 1..Len(StatsSteps) : StatsSteps[i].actionTitle = "" /\ <<i, 1>> \in DateFindings
    /\ call.stats.flags[1].msg = "Plan start date is after end date."
    /\ call.stats.flags[2].msg = "is before plan start."
    /\ call.stats.flags[3].msg = "is after plan end."
    /\ call.stats.flags[Len(call.stats.flags) - 2].msg = "Progress decreases between steps."
    /\ call.stats.flags[Len(call.stats.flags) - 1].msg = "Initial Step progress should be 0."
    /\ call.stats.flags[Len(call.stats.flags)].msg = "End Step progress should be 100."

----------------------------------------------------------------------------
(* Properties of the values of progress and successProbability *)

\* the step an insertion added, and its neighbours before the insertion
InsertOps == {"insertStepAt", "click:insertStep", "click:addStepBeforeEnd"}
Inserted == call.op \in InsertOps
NewStep == At(AfterSteps, FindIndexById(AfterSteps, call.stepId))
LeftProgress == IF InRange(BeforeSteps, call.index - 1)
                THEN At(BeforeSteps, call.index - 1).progress ELSE 0
RightProgress == IF InRange(BeforeSteps, call.index)
                 THEN At(BeforeSteps, call.index).progress ELSE 100

\* x / 2 rounded to the nearest integer, a half upwards
HalfRounded(x) == IF x % 2 = 0 THEN x \div 2 ELSE (x \div 2) + 1

\* C17: insertStepAt gives the new step a progress equal to the rounded midpoint
\* of the progress of the steps immediately left and right of the insertion
\* point (0 and 100 for an absent left or right neighbour), clamped to [0,100]
C17_MidpointProgress ==
    Inserted =>
        LET mid == HalfRounded(LeftProgress + RightProgress)
        IN  NewStep.progress = (IF mid < 0 THEN 0 ELSE IF mid > 100 THEN 100 ELSE mid)

\* C18: in every reachable editor state, every step's progress and
\* successProbability are integers within [0,100]
C18_ValuesInRange ==
    \A i \in 1..Len(plans) :
        \A j \in 1..Len(plans[i].steps) :
            LET step == plans[i].steps[j]
            IN  /\ ~step.progressIsString
                /\ step.progress \in 0..100
                /\ ~step.successProbabilityIsString
                /\ step.successProbability \in 0..100

\* C25: when moveStep is applied to an intermediate step whose target index
\* index+direction lies in [1, len-2], the result is the sequence with exactly
\* that step and its neighbour at the target index swapped: every other
\* position, the step count and the set of steps are unchanged
C25_MoveSwaps ==
    (call.op = "moveStep" /\ ~MoveIsNoop(BeforeSteps, call.stepId, call.dir)) =>
        LET from == FindIndexById(BeforeSteps, call.stepId) + 1
            to == from + call.dir
        IN  /\ Len(AfterSteps) = Len(BeforeSteps)
            /\ AfterSteps[to] = BeforeSteps[from]
            /\ AfterSteps[from] = BeforeSteps[to]
            /\ \A i \in 1..Len(BeforeSteps) :
                    i \notin {from, to} => AfterSteps[i] = BeforeSteps[i]
            /\ {AfterSteps[i] : i \in 1..Len(AfterSteps)}
                    = {BeforeSteps[i] : i \in 1..Len(BeforeSteps)}

\* the second step of the example plan was moved one place to the right
C25_Witness ==
    /\ call.op = "moveStep"
    /\ call.dir = 1
    /\ Len(BeforeSteps) = 5
    /\ FindIndexById(BeforeSteps, call.stepId) = 1
    /\ FindIndexById(AfterSteps, call.stepId) = 2
    /\ AfterSteps # BeforeSteps

\* C26: insertStepAt gives the new step successProbability
\* clamp(100 - (n-2)*8, 0, 100), where n is the number of steps in the plan
\* before the insertion, so the value decreases as more intermediate steps
\* already exist and never leaves [0,100]
C26_InsertedProbability ==
    Inserted =>
        LET n == Len(BeforeSteps)
            raw == 100 - (n - 2) * 8
        IN  /\ NewStep.successProbability =
                    (IF raw < 0 THEN 0 ELSE IF raw > 100 THEN 100 ELSE raw)
            /\ NewStep.successProbability \in 0..100
            /\ ~NewStep.successProbabilityIsString

\* a step was inserted into a plan of 15 steps and got successProbability 0
C26_Witness ==
    /\ Inserted
    /\ Len(BeforeSteps) = 15
    /\ Len(AfterSteps) = 16
    /\ NewStep.successProbability = 0

NonDecreasing(steps) ==
    \A i \in 2..Len(steps) : steps[i - 1].progress <= steps[i].progress

HasDecreaseFlag(plan) ==
    CountFlag(computePlanStats(plan).flags, "Progress decreases between steps.") > 0

\* C30: insertStepAt at an interior index of a plan whose step progress values
\* are non-decreasing in step order yields a plan whose progress values are
\* still non-decreasing, so the insertion never introduces the progress-decreases
\* flag
C30_InsertKeepsOrder ==
    (/\ Inserted
     /\ call.index >= 1
     /\ call.index <= Len(BeforeSteps) - 1
     /\ NonDecreasing(BeforeSteps)
     /\ ~HasDecreaseFlag(BeforePlan)) =>
        /\ NonDecreasing(AfterSteps)
        /\ ~HasDecreaseFlag(AfterPlan)

----------------------------------------------------------------------------
(* Properties of the structure of a plan and of the collection *)

CountType(steps, type) == Cardinality({j \in 1..Len(steps) : steps[j].type = type})

\* C19: in every reachable state each plan contains exactly one step of role
\* initial and exactly one step of role end, with any number of intermediate
\* steps, after any sequence of insert/remove/move/update operations
C19_OneInitialOneEnd ==
    \A i \in 1..Len(plans) :
        /\ CountType(plans[i].steps, "initial") = 1
        /\ CountType(plans[i].steps, "end") = 1

\* the positions of the plans other than id
OthersAt(ps, id) == {i \in 1..Len(ps) : ps[i].id # id}

\* C20: deletePlan(id) removes the plan from the in-memory collection; if the
\* deleted plan was the active one, the active plan becomes the first remaining
\* plan, or none when the collection is now empty; if another plan was active,
\* the active plan is unchanged
C20_DeletePlan ==
    call.op = "deletePlan:resumed" =>
        /\ \A i \in 1..Len(plans) : plans[i].id # call.planId
        /\ Len(plans) = Cardinality(OthersAt(call.before, call.planId))
        /\ \A i \in OthersAt(call.before, call.planId) :
                \E j \in 1..Len(plans) :
                    /\ plans[j] = call.before[i]
                    /\ j = Cardinality({k \in OthersAt(call.before, call.planId) : k <= i})
        /\ IF call.beforeActive = call.planId
           THEN IF plans = <<>> THEN activePlanId = Null ELSE activePlanId = plans[1].id
           ELSE activePlanId = call.beforeActive

\* the active plan of two was deleted and the other plan is now the active one
C20_Witness ==
    /\ call.op = "deletePlan:resumed"
    /\ Len(call.before) = 2
    /\ call.beforeActive = call.planId
    /\ Len(plans) = 1
    /\ activePlanId = plans[1].id
    /\ activePlanId # call.planId

----------------------------------------------------------------------------
(* Properties of the event listeners *)

\* C23: event listeners are attached at most once no matter how many times
\* attachEventListeners is called or how many renders happen, so one click on
\* the New button results in exactly one createPlan call and exactly one new
\* plan
C23_ListenersOnce ==
    /\ clickListeners <= 1
    /\ attachCalls >= 1 => clickListeners = 1
    /\ call.op = "click:createPlan" =>
            /\ call.calls = 1
            /\ Len(plans) = Len(call.before) + 1
            /\ SubSeq(plans, 2, Len(plans)) = call.before

\* attachEventListeners was called more than once and a click on New created
\* one plan
C23_Witness ==
    /\ attachCalls >= 2
    /\ call.op = "click:createPlan"
    /\ call.before # <<>>
    /\ Len(plans) = Len(call.before) + 1

----------------------------------------------------------------------------
(* Properties of the editor and the store together *)

\* what GET /api/plans/:id returns of a plan the store holds exactly as sent
AsStored(plan) ==
    PlanJson(PlanRow(plan.id, plan),
             [i \in 1..Len(plan.steps) |-> StepRow(plan.steps[i], plan.id, i - 1)])

\* the requests for plan id that have reached the store
RequestsFor(method, id) ==
    {k \in 1..Len(handlers) : handlers[k].method = method /\ handlers[k].planId = id}

\* the blank plan of id: makeBlankPlan draws the ids of its two steps, then its own
BlankPlan(id) == makeBlankPlan(id - 2)

\* no request of the editor is under way
Settled == tasks = <<>> /\ AllDone

\* C21: createPlan adds exactly one new blank plan at the front of the plans in
\* memory with the plans held before following in their order and makes it the
\* active plan; when its requests are delivered and nothing else was asked for
\* the new plan, the store then holds that plan with its two steps
C21_CreatePlan ==
    /\ call.op = "createPlan" =>
            /\ plans = <<call.saved>> \o call.before
            /\ call.saved = BlankPlan(call.planId)
            /\ \A i \in 1..Len(call.before) : call.before[i].id # call.planId
            /\ activePlanId = call.planId
    /\ (/\ call.op = "createPlan:resumed"
        /\ RequestsFor("DELETE", call.planId) = {}
        /\ Cardinality(RequestsFor("PUT", call.planId)) = 1
        /\ \A i \in 1..Len(tasks) : tasks[i].planId # call.planId) =>
            /\ StoredPlans(call.planId) = {AsStored(BlankPlan(call.planId))}
            /\ \A p \in StoredPlans(call.planId) : Len(p.steps) = 2
            /\ getActivePlan(plans, call.planId) = BlankPlan(call.planId)

\* createPlan has resumed after its save: the PUT of the new plan was answered
\* 500, the POST after it 200, the store holds the plan and memory holds it in
\* front of the example plan
C21_Witness ==
    /\ call.op = "createPlan:resumed"
    /\ Len(plans) = 2
    /\ plans[1].id = call.planId
    /\ activePlanId = call.planId
    /\ \E k \in RequestsFor("PUT", call.planId) : handlers[k].status = 500
    /\ \E k \in RequestsFor("POST", call.planId) : handlers[k].status = 200
    /\ StoredPlans(call.planId) = {AsStored(plans[1])}

\* the plan the store holds from the start
ExamplePlanId == makeExamplePlan(1).id

\* plan id was in the store before the requests and no request removed it
StoredAllAlong(id) ==
    /\ id = ExamplePlanId
    /\ RequestsFor("DELETE", id) = {}

\* two PUTs of plan id were in their handlers at the same time
PutsOverlap(id) ==
    \E k \in RequestsFor("PUT", id) : handlers[k].running \cap RequestsFor("PUT", id) # {}

\* the PUT of plan id that reached the store last
LastPut(id) ==
    CHOOSE k \in RequestsFor("PUT", id) : \A j \in RequestsFor("PUT", id) : j <= k

\* C27: the saves of two successive edits of one plan reach the store in either
\* order, and once they are through the store holds exactly the snapshot of the
\* PUT it processed last: of the PUT that arrived last, or, when the handlers
\* ran at the same time, of one of the PUTs
C27_LastWriteWins ==
    \A id \in PlanIds :
        (/\ Settled
         /\ StoredAllAlong(id)
         /\ Cardinality(RequestsFor("PUT", id)) >= 2) =>
            \E k \in RequestsFor("PUT", id) :
                /\ PutsOverlap(id) \/ k = LastPut(id)
                /\ StoredPlans(id) = {AsStored(handlers[k].body)}

\* deletePlan(id) has completed: its DELETE was answered and the call went on
DeleteCompleted(id) ==
    /\ \E k \in RequestsFor("DELETE", id) : handlers[k].pc = "done"
    /\ \A i \in 1..Len(tasks) : tasks[i].fn = "deletePlanById" => tasks[i].planId # id

\* C28: once deletePlan(id) has completed, plan id is absent from the plans in
\* memory and absent from the store, also when an edit of the plan was issued
\* while the DELETE was under way: the save of the edit, with its POST after a
\* PUT that was not ok, does not bring the plan back
C28_DeletedStaysDeleted ==
    \A id \in 1..nextId :
        (DeleteCompleted(id) /\ Settled) =>
            /\ id \notin PlanIds
            /\ \A r \in dbPlans : r.id # id
            /\ \A r \in dbSteps : r.plan_id # id

----------------------------------------------------------------------------
(* Properties of createPlan during the first load *)

\* C29: a plan added by createPlan stays in the plans in memory until
\* deletePlan is called on it, also when createPlan runs before the loadPlans
\* of the constructor has completed (no deletePlan is called here: the plan
\* of every createPlan that is waiting for its save or has just resumed is in
\* memory)
C29_CreatedPlanStays ==
    /\ \A i \in 1..Len(tasks) : tasks[i].then = "createPlan" => tasks[i].planId \in PlanIds
    /\ call.op = "createPlan:resumed" => call.planId \in PlanIds

====
